---- MODULE Spec2Model ----
(***************************************************************************)
(* Challenge / session lifecycle of the passkeys backend (server.js with   *)
(* Redis challenge tokens, src/unnamed/part_004).  Every request handler   *)
(* is a process that runs from one `await` to the next; the Redis store,   *)
(* the PostgreSQL tables and the clock are shared.                         *)
(***************************************************************************)
EXTENDS Integers, FiniteSets, Sequences, Bags, TLC

(***************************************************************************)
(* Bounds of the model.                                                    *)
(***************************************************************************)
NumProcs == 2       \* request handlers that may be in flight at once
MaxRequests == 3    \* requests started in one behaviour of Spec
MaxEnvRequests == 2 \* requests started in one behaviour of SpecEnv
MaxAdvance == 1     \* clock advances in one behaviour of SpecEnv
MaxAuthRequests == 4 \* requests started in one behaviour of SpecAuth
MaxUserRequests == 3 \* requests started in one behaviour of SpecUsers
MaxSessionRequests == 3     \* requests started in one behaviour of SpecSession
MaxSeqRequests == 4         \* requests started in one behaviour of SpecSeq
MaxSessionEnvRequests == 3  \* requests started in one behaviour of SpecSessionEnv
MaxTasks == 2               \* async SessionManager methods awaiting at once
MaxAgentCalls == 2          \* calls and outside events in one behaviour of SpecAgent
MaxAgentTicks == 1          \* ticks of the browser clock in one behaviour of SpecAgent
MaxFairCalls == 2           \* calls and outside events in one behaviour of SpecAgentFair
MaxFlowRequests == 6        \* requests in one behaviour of SpecClientFlow
MaxPrivRequests == 3        \* requests in one behaviour of SpecPrivileged
MaxListenerCalls == 4       \* calls in one behaviour of SpecListeners
MaxSessionAdvance == 2      \* clock advances in one behaviour of SpecSessionEnv

Procs == 1..NumProcs

(***************************************************************************)
(* Program constants.                                                      *)
(***************************************************************************)
CHALLENGE_TIMEOUT == 300000        \* ms: 5 * 60 * 1000
SESSION_TOKEN_TIMEOUT == 604800000 \* ms: 7 * 24 * 60 * 60 * 1000
SESSION_MAX_AGE == 604800000       \* ms: the default of the cookie's maxAge
RP_ID == "localhost"

\* Math.floor(CHALLENGE_TIMEOUT / 1000): the TTL handed to setEx, in seconds
ChallengeTtlSeconds == CHALLENGE_TIMEOUT \div 1000
SessionTtlSeconds == SESSION_TOKEN_TIMEOUT \div 1000

\* the time to live express-session's store gives a session: cookie.maxAge
CookieTtlSeconds == SESSION_MAX_AGE \div 1000

(***************************************************************************)
(* Request inputs.                                                         *)
(***************************************************************************)
NoName == ""                       \* a missing / empty username field
Usernames == {"alice", "Bob"}      \* usernames that pass validateUsername
CredIds == {"cX", "cY"}            \* base64url credential identifiers
RawIds == {"cX", "cY", "cX=="}     \* rawId fields: base64url, or padded base64
Counters == {0, 1}                 \* signature counters an authenticator reports
NoToken == 0                       \* a missing challengeToken field
NoChallenge == 0                   \* null: no challenge
Jumps == {ChallengeTtlSeconds - 1, ChallengeTtlSeconds}   \* seconds the clock may advance by
SessionJumps == {SessionTtlSeconds - 1, SessionTtlSeconds + 1}   \* the same, around a week
NoSession == 0                     \* no passkeys.sid cookie, no bearer token

VARIABLES
  challenges,   \* Redis keys challenge:<token> -> [challenge, expiresAt], with the
                \* time of the SETEX (mintedAt) kept beside them as history
  sessions,     \* Redis keys session:<token>   -> [userId, username, loginTime, expiresAt]
  cookies,      \* express-session's Redis store: sid -> [userId, username, loginTime, expiresAt]
  redisUp,      \* whether the Redis client can reach the store
  users,        \* rows of table users
  creds,        \* rows of table passkey_credentials
  now,          \* wall clock, in seconds
  nextId,       \* source of fresh challenge tokens (uuidv4) and challenges
  nextSession,  \* source of fresh session tokens (uuidv4)
  nextUserId,   \* the SERIAL sequence of users.id
  req,          \* per handler in flight: request inputs, position and locals
  last,         \* the request answered by the latest step, with its response
  wins,         \* history: token -> number of consume calls that returned its challenge
  rejected,     \* history: tokens carried by a complete call that was rejected
  mintedBy,     \* history: token -> the begin call that generated it
  loggedOut,    \* history: session tokens deleted by a logout call that has returned
  issued,       \* history: session token -> the user id createSessionToken stored under it
  budget,       \* [requests, advances] the behaviour may still start
  sm,           \* the browser's SessionManager: its fields, the timers it has pending
                \* in the window, and what it emitted
  tasks,        \* the async methods of the SessionManager that are awaiting a response
  net           \* what the server holds for this browser, and its localStorage token

vars == <<challenges, sessions, cookies, redisUp, users, creds, now, nextId, nextSession,
          nextUserId, req, last, wins, rejected, mintedBy, loggedOut, issued,
          budget, sm, tasks, net>>

store == <<challenges, sessions, cookies, redisUp>>
db == <<users, creds, nextUserId>>
hist == <<wins, rejected, mintedBy, loggedOut, issued>>
ids == <<nextId, nextSession>>
client == <<sm, tasks, net>>

(***************************************************************************)
(* Redis: SETEX / GET / DEL on a key with a time to live.                  *)
(***************************************************************************)
\* a key is visible to GET until its time to live has elapsed
Live(map, k) == k \in DOMAIN map /\ now < map[k].expiresAt

Remove(map, k) == [x \in DOMAIN map \ {k} |-> map[x]]

Put(map, k, v) == [x \in DOMAIN map \cup {k} |-> IF x = k THEN v ELSE map[x]]

(***************************************************************************)
(* PostgreSQL helpers.                                                     *)
(***************************************************************************)
\* String.prototype.toLowerCase / SQL LOWER on the usernames of the model
Lower(u) == IF u = "Bob" THEN "bob" ELSE u

NoRow == [id |-> 0]

\* SELECT * FROM users WHERE LOWER(username) = LOWER($1)
getUserByUsername(username) ==
  IF \E u \in users : Lower(u.username) = Lower(username)
  THEN CHOOSE u \in users : Lower(u.username) = Lower(username)
  ELSE NoRow

\* SELECT * FROM passkey_credentials WHERE user_id = $1
getCredentialsByUserId(userId) == {c \in creds : c.user_id = userId}

NoCred == [id |-> ""]

\* the username of the users row a credential row references
OwnerName(c) == (CHOOSE u \in users : u.id = c.user_id).username

\* SELECT pc.*, u.username FROM passkey_credentials pc JOIN users u ... WHERE pc.id = $1
getCredentialById(credentialId) ==
  IF \E c \in creds : c.id = credentialId
  THEN LET c == CHOOSE x \in creds : x.id = credentialId IN
       [id |-> c.id, user_id |-> c.user_id, raw_id |-> c.raw_id, rp_id |-> c.rp_id,
        counter |-> c.counter, username |-> OwnerName(c)]
  ELSE NoCred

\* the strings of the model that satisfy the format rules of validateUsername
ValidNames == Usernames \cup {"bob"}      \* every string the username rules accept
\* strings a client may send as username: the accepted ones, one too short, a
\* reserved word, and an accepted one behind a space
BeginNames == ValidNames \cup {"ab", "admin", " alice"}

\* String.prototype.trim on the usernames of the model
trim(u) == IF u = " alice" THEN "alice" ELSE u

\* if (!username || !username.trim()) invalid; the rules are then applied to
\* trimmedUsername
validateUsername(username) == username # NoName /\ trim(username) \in ValidNames

(***************************************************************************)
(* Handler processes.                                                      *)
(***************************************************************************)
NoResp == [status |-> 0, error |-> "", verified |-> FALSE, message |-> "",
           username |-> NoName, sessionToken |-> 0, challengeToken |-> NoToken,
           authenticated |-> FALSE, userId |-> 0, expiresAt |-> 0, available |-> FALSE,
           credentials |-> {}]

Idle == [op |-> "idle", pc |-> "idle",
         username |-> NoName, cred |-> "", rawId |-> "", token |-> NoToken,
         cer |-> [chal |-> NoChallenge, ok |-> FALSE, counter |-> 0],
         expectedChallenge |-> NoChallenge, user |-> NoRow, stored |-> NoCred,
         cookie |-> NoRow, sid |-> 0, bearer |-> 0, sessionData |-> NoRow,
         afterLogout |-> FALSE, stale |-> FALSE, at |-> 0, mismatch |-> FALSE,
         getDone |-> FALSE, liveAtGet |-> FALSE, expiredAtGet |-> FALSE,
         storeFailed |-> FALSE, afterWin |-> FALSE, afterReject |-> FALSE,
         credKnown |-> FALSE,
         consumed |-> FALSE, verifyCalled |-> FALSE, verifyOk |-> FALSE,
         save |-> "none", counterUpdated |-> FALSE, sessionCreated |-> FALSE,
         resp |-> NoResp]

\* handler instances are anonymous: a new request takes the first free one
Free(p) == req[p].pc = "idle" /\ \A q \in Procs : q < p => req[q].pc # "idle"

CanStart == budget.requests > 0

Spend == [budget EXCEPT !.requests = @ - 1]

Error(status, text) == [NoResp EXCEPT !.status = status, !.error = text]

\* Which instance handles a request is of no consequence: the requests in flight
\* are kept in one fixed order, ahead of the idle instances.
Arrangements(f) == {[p \in Procs |-> f[pi[p]]] : pi \in Permutations(Procs)}

InOrder(f) ==
  CHOOSE g \in Arrangements(f) :
    \A p \in Procs, q \in Procs : (p < q /\ g[p].pc = "idle") => g[q].pc = "idle"

\* what is kept of an answered request: the fields of the body that name the
\* attempt, what the handler did, and the response
Observed(r, response) ==
  [r EXCEPT !.pc = "done", !.resp = response, !.cer = Idle.cer, !.rawId = "",
            !.expectedChallenge = NoChallenge]

\* the handler answers and ends; a complete call that had a well-formed body and
\* was rejected is remembered by its token
Finish(p, r, response) ==
  /\ req' = InOrder([req EXCEPT ![p] = Idle])
  /\ last' = Observed(r, response)
  /\ rejected' = IF r.op \in {"regComplete", "authComplete"} /\ r.pc # "idle"
                    /\ ~response.verified
                 THEN rejected \cup {r.token} ELSE rejected
  /\ UNCHANGED client

Goto(p, r, label) ==
  /\ req' = InOrder([req EXCEPT ![p] = [r EXCEPT !.pc = label]])
  /\ last' = Idle
  /\ rejected' = rejected
  /\ UNCHANGED client

\* the server right after start-up on an empty database
Fresh ==
  /\ challenges = <<>>
  /\ sessions = <<>>
  /\ cookies = <<>>
  /\ users = {}
  /\ creds = {}
  /\ nextId = 1
  /\ nextSession = 1
  /\ nextUserId = 1
  /\ wins = <<>>
  /\ mintedBy = <<>>
  /\ issued = <<>>

\* the server after "alice" registered credential cX: the state Fresh reaches by
\* register/begin and register/complete (Registered below is that state)
Registered ==
  /\ challenges = <<>>
  /\ sessions = (1 :> [userId |-> 1, username |-> "alice", loginTime |-> 0,
                       expiresAt |-> SessionTtlSeconds])
  /\ cookies = (1 :> [userId |-> 1, username |-> "alice", loginTime |-> 0,
                      expiresAt |-> CookieTtlSeconds])
  /\ users = {[id |-> 1, username |-> "alice"]}
  /\ creds = {[id |-> "cX", user_id |-> 1, raw_id |-> "cX", rp_id |-> RP_ID,
               counter |-> 0]}
  /\ nextId = 2
  /\ nextSession = 2
  /\ nextUserId = 2
  /\ wins = (1 :> 1)
  /\ mintedBy = (1 :> [kind |-> "registration", username |-> "alice"])
  /\ issued = (1 :> 1)

\* the server up, Redis connected, nothing in flight
ServerUp(requests, advances) ==
  /\ redisUp = TRUE
  /\ now = 0
  /\ req = [p \in Procs |-> Idle]
  /\ last = Idle
  /\ rejected = {}
  /\ loggedOut = {}
  /\ budget = [requests |-> requests, advances |-> advances]

(***************************************************************************)
(* The browser agent (SessionManager.ts): the values of its fields.        *)
(***************************************************************************)
Listeners == {"f", "g"}            \* listener functions the page may register
NoTimer == 0                       \* null: no timer handle
NoProfile == NoName                \* null: no profile
SessionLife == 1                   \* the server's session lifetime, in ticks of the browser clock

\* { authenticated: false }
Unauthenticated == [authenticated |-> FALSE, expiresAt |-> 0, username |-> NoName]

\* the fields of a new SessionManager, with the window's timers it has pending
\* (timers) and the history of what it did: events emitted so far (emitted), in
\* the latest step (emits), the listeners they reached (delivered), the step
\* (did), the public call that returned in it (returned, ok), the subscriptions
\* handed out (subs)
NewManager ==
  [session |-> Unauthenticated, profile |-> NoProfile, listeners |-> <<>>,
   checkInterval |-> NoTimer, expirationTimeout |-> NoTimer, isInitialized |-> FALSE,
   destroyed |-> FALSE, afterLogout |-> FALSE,
   timers |-> {},
   emitted |-> [t \in {"login", "sessionInitialized"} |-> 0],
   emits |-> <<>>, delivered |-> {}, did |-> "", returned |-> "", ok |-> FALSE,
   subs |-> <<>>]


\* the server holds no session for this browser and localStorage has no token
LoggedOutNet == [cookie |-> FALSE, token |-> FALSE, storedToken |-> FALSE,
                 loginTime |-> 0, username |-> NoName]

\* no page is open
NoBrowser ==
  /\ sm = NewManager
  /\ tasks = EmptyBag
  /\ net = LoggedOutNet

Start(requests, advances) == ServerUp(requests, advances) /\ NoBrowser

Init == (Fresh \/ Registered) /\ Start(MaxRequests, 0)

InitEnv == (Fresh \/ Registered) /\ Start(MaxEnvRequests, MaxAdvance)

(***************************************************************************)
(* Environment: the clock and the availability of Redis.                   *)
(***************************************************************************)
Advance ==
  /\ budget.advances > 0
  /\ \E d \in Jumps : now' = now + d
  /\ budget' = [budget EXCEPT !.advances = @ - 1]
  /\ last' = Idle
  /\ UNCHANGED <<store, db, ids, req, hist, client>>

\* the clock moving by about the life of a session, between two requests (no
\* request stays in flight for a week)
AdvanceSession ==
  /\ budget.advances > 0
  /\ \A p \in Procs : req[p].pc = "idle"
  /\ \E d \in SessionJumps : now' = now + d
  /\ budget' = [budget EXCEPT !.advances = @ - 1]
  /\ last' = Idle
  /\ UNCHANGED <<store, db, ids, req, hist, client>>

RedisFail ==
  /\ redisUp
  /\ redisUp' = FALSE
  /\ last' = Idle
  /\ UNCHANGED <<challenges, sessions, cookies, db, now, ids, req, hist, budget, client>>

RedisRecover ==
  /\ ~redisUp
  /\ redisUp' = TRUE
  /\ last' = Idle
  /\ UNCHANGED <<challenges, sessions, cookies, db, now, ids, req, hist, budget, client>>

(***************************************************************************)
(* storeChallenge(challenge): setEx challenge:<uuid> with the 5 minute TTL *)
(* Returns the token, or 0 when Redis threw.                               *)
(***************************************************************************)
storeChallengeOk == redisUp

\* a SETEX handed CHALLENGE_TIMEOUT itself, milliseconds taken for seconds
storeChallengeMillis(token, challenge) ==
  IF storeChallengeOk
  THEN Put(challenges, token,
           [challenge |-> challenge, expiresAt |-> now + CHALLENGE_TIMEOUT,
            mintedAt |-> now])
  ELSE challenges

storeChallenge(token, challenge) ==
  IF storeChallengeOk
  THEN Put(challenges, token,
           [challenge |-> challenge, expiresAt |-> now + ChallengeTtlSeconds,
            mintedAt |-> now])
  ELSE challenges

(***************************************************************************)
(* POST /api/register/begin                                                *)
(***************************************************************************)
StartRegBeginOf(p, names) ==
  /\ Free(p) /\ CanStart
  /\ \E username \in names \cup {NoName} :
       LET r == [Idle EXCEPT !.op = "regBegin", !.username = username] IN
       IF ~validateUsername(username)
       THEN Finish(p, r, Error(400, "Invalid username"))
       ELSE Goto(p, r, "rb_user")
  /\ budget' = Spend
  /\ UNCHANGED <<store, db, now, ids, wins, mintedBy, loggedOut, issued>>

StartRegBegin(p) == StartRegBeginOf(p, Usernames)

\* let user = await getUserByUsername(username)
RegBeginUser(p) ==
  LET r == req[p] IN
  /\ r.pc = "rb_user"
  /\ LET u == getUserByUsername(r.username) IN
       Goto(p, [r EXCEPT !.user = u], IF u = NoRow THEN "rb_create" ELSE "rb_options")
  /\ UNCHANGED <<store, db, now, ids, wins, mintedBy, loggedOut, issued, budget>>

\* a createUser that stores the username as typed
createUserAsTyped(username) == [id |-> nextUserId, username |-> username]

\* the row INSERT INTO users (username) VALUES (username.toLowerCase()) adds
createUser(username) == [id |-> nextUserId, username |-> Lower(username)]

\* user = await createUser(username): INSERT, refused by the UNIQUE(username)
\* constraint (error 23505, caught by the handler's catch-all)
RegBeginCreate(p) ==
  LET r == req[p]
      u == createUser(r.username) IN
  /\ r.pc = "rb_create"
  /\ nextUserId' = nextUserId + 1
  /\ IF \E v \in users : v.username = u.username
     THEN /\ Finish(p, r, Error(500, "Failed to generate registration options"))
          /\ users' = users
     ELSE /\ users' = users \cup {u}
          /\ Goto(p, [r EXCEPT !.user = u], "rb_options")
  /\ UNCHANGED <<store, creds, now, ids, wins, mintedBy, loggedOut, issued, budget>>

\* getCredentialsByUserId, generateRegistrationOptions, storeChallenge, res.json
RegBeginMint(p) ==
  LET r == req[p] IN
  /\ r.pc = "rb_options"
  /\ nextId' = nextId + 1
  /\ challenges' = storeChallenge(nextId, nextId)
  /\ IF storeChallengeOk
     THEN Finish(p, r, [NoResp EXCEPT !.status = 200, !.challengeToken = nextId])
     ELSE Finish(p, r, Error(500, "Registration service temporarily unavailable"))
  /\ mintedBy' = Put(mintedBy, nextId, [kind |-> "registration", username |-> r.username])
  /\ UNCHANGED <<sessions, cookies, redisUp, db, now, nextSession, wins, loggedOut, issued, budget>>

(***************************************************************************)
(* POST /api/authenticate/begin                                            *)
(***************************************************************************)
StartAuthBegin(p) ==
  /\ Free(p) /\ CanStart
  /\ nextId' = nextId + 1
  /\ challenges' = storeChallenge(nextId, nextId)
  /\ LET r == [Idle EXCEPT !.op = "authBegin"] IN
       IF storeChallengeOk
       THEN Finish(p, r, [NoResp EXCEPT !.status = 200, !.challengeToken = nextId])
       ELSE Finish(p, r, Error(500, "Authentication service temporarily unavailable"))
  /\ budget' = Spend
  /\ mintedBy' = Put(mintedBy, nextId, [kind |-> "authentication", username |-> NoName])
  /\ UNCHANGED <<sessions, cookies, redisUp, db, now, nextSession, wins, loggedOut, issued>>

(***************************************************************************)
(* getAndValidateChallenge(token): GET challenge:<token>, then DEL it.     *)
(* Two awaits, so two steps; any Redis error is caught and yields null.    *)
(***************************************************************************)
\* const challenge = await redisClient.get(key), seen from the catch block
redisGetChallenge(token) ==
  IF redisUp /\ Live(challenges, token) THEN challenges[token].challenge
  ELSE NoChallenge

Won(token) == IF token \in DOMAIN wins THEN wins[token] ELSE 0

\* five minutes, in the seconds of the clock
FiveMinutes == 5 * 60

\* the token was stored, never consumed, and five minutes have elapsed since
Expired(token) ==
  token \in DOMAIN challenges /\ now >= challenges[token].mintedAt + FiveMinutes

\* a GET whose result is handed on without the `if (!challenge)' test
ConsumeGetUnchecked(p, at, next, text) ==
  LET r == req[p]
      r1 == [r EXCEPT !.getDone = TRUE,
                      !.liveAtGet = Live(challenges, r.token),
                      !.expiredAtGet = Expired(r.token),
                      !.storeFailed = ~redisUp,
                      !.afterWin = Won(r.token) > 0] IN
  /\ r.pc = at
  /\ Goto(p, [r1 EXCEPT !.expectedChallenge = redisGetChallenge(r.token)], next)
  /\ UNCHANGED <<store, db, now, ids, wins, mintedBy, loggedOut, issued, budget>>

\* first await of getAndValidateChallenge: null ends the request with `text'
ConsumeGet(p, at, next, text) ==
  LET r == req[p]
      c == redisGetChallenge(r.token)
      r1 == [r EXCEPT !.getDone = TRUE,
                      !.liveAtGet = Live(challenges, r.token),
                      !.expiredAtGet = Expired(r.token),
                      !.storeFailed = ~redisUp,
                      !.afterWin = Won(r.token) > 0] IN
  /\ r.pc = at
  /\ IF c = NoChallenge
     THEN Finish(p, r1, Error(400, text))
     ELSE Goto(p, [r1 EXCEPT !.expectedChallenge = c], next)
  /\ UNCHANGED <<store, db, now, ids, wins, mintedBy, loggedOut, issued, budget>>

\* a DEL that removes nothing (a key built without the challenge: prefix)
redisDelOtherKey(token) == challenges

\* await redisClient.del(key)
redisDelChallenge(token) == Remove(challenges, token)

\* second await: await redisClient.del(key); return challenge
ConsumeDel(p, at, next, text) ==
  LET r == req[p] IN
  /\ r.pc = at
  /\ IF redisUp
     THEN /\ challenges' = redisDelChallenge(r.token)
          /\ wins' = Put(wins, r.token, Won(r.token) + 1)
          /\ Goto(p, [r EXCEPT !.consumed = TRUE], next)
     ELSE /\ UNCHANGED <<challenges, wins>>
          /\ Finish(p, [r EXCEPT !.expectedChallenge = NoChallenge, !.storeFailed = TRUE],
                    Error(400, text))
  /\ UNCHANGED <<sessions, cookies, redisUp, db, now, ids, mintedBy, loggedOut, issued, budget>>

InvalidChallenge == "Invalid or expired challenge"

(***************************************************************************)
(* The WebAuthn library at its boundary: it throws when the challenge in   *)
(* the client data is not the expected one, and reports verified or not.   *)
(***************************************************************************)
\* what a client can send with token t: a ceremony over the challenge that came
\* with t (valid or not), or one over some other challenge
Ceremonies(t) == {[chal |-> t, ok |-> TRUE, counter |-> 0],
                  [chal |-> t, ok |-> FALSE, counter |-> 0],
                  [chal |-> NoChallenge, ok |-> TRUE, counter |-> 0]}

verifyRegistrationResponse(cer, expectedChallenge) ==
  IF cer.chal # expectedChallenge THEN "throws"
  ELSE IF cer.ok THEN "verified" ELSE "failed"

\* challenge tokens a client may present: any token generated so far (stored,
\* consumed, expired, or never stored because Redis was down), or none
Presentable == (1..(nextId - 1)) \cup {NoToken}

(***************************************************************************)
(* createUserSession + createSessionToken + res.json of a success path.    *)
(***************************************************************************)
createSessionTokenOk == redisUp

\* the session record JSON.stringify'd under session:<token>
SessionData(user) == [userId |-> user.id, username |-> user.username,
                      loginTime |-> now, expiresAt |-> now + SessionTtlSeconds]

\* createUserSession: the fields set on req.session, which express-session saves
\* in its Redis store when the response ends
CookieData(user) == [userId |-> user.id, username |-> user.username,
                     loginTime |-> now, expiresAt |-> now + CookieTtlSeconds]

IssueSession(p, r, user, username, message) ==
  /\ nextSession' = nextSession + 1
  /\ sessions' = IF createSessionTokenOk
                 THEN Put(sessions, nextSession, SessionData(user)) ELSE sessions
  /\ cookies' = IF redisUp THEN Put(cookies, nextSession, CookieData(user)) ELSE cookies
  /\ issued' = IF createSessionTokenOk THEN Put(issued, nextSession, user.id) ELSE issued
  /\ Finish(p, [r EXCEPT !.sessionCreated = TRUE,
                         !.cookie = [id |-> user.id, username |-> user.username]],
            [NoResp EXCEPT !.status = 200, !.verified = TRUE, !.message = message,
                           !.username = username,
                           !.sessionToken = IF createSessionTokenOk THEN nextSession ELSE 0])

(***************************************************************************)
(* POST /api/register/complete                                             *)
(***************************************************************************)
\* The fields of req.body are fixed when the request arrives.  The model draws
\* each one where the handler first reads its value (the token here, the username
\* and the credential at the first database lookup, the ceremony result at
\* verification): the handler cannot tell the difference, and requests that
\* differ only in a field not read yet are one state.
StartRegComplete(p) ==
  /\ Free(p) /\ CanStart
  /\ \E token \in Presentable, named \in BOOLEAN :
       LET r == [Idle EXCEPT !.op = "regComplete", !.token = token,
                             !.afterReject = token \in rejected] IN
       IF ~named \/ token = NoToken
       THEN Finish(p, r, Error(400, "Username, credential, and challenge token are required"))
       ELSE Goto(p, r, "rc_get")
  /\ budget' = Spend
  /\ UNCHANGED <<store, db, now, ids, wins, mintedBy, loggedOut, issued>>

RegCompleteGet(p) == ConsumeGet(p, "rc_get", "rc_del", InvalidChallenge)

RegCompleteDel(p) == ConsumeDel(p, "rc_del", "rc_user", InvalidChallenge)

\* const user = await getUserByUsername(username)
RegCompleteUser(p) ==
  /\ req[p].pc = "rc_user"
  /\ \E username \in Usernames, cred \in CredIds :
       LET r == [req[p] EXCEPT !.username = username, !.cred = cred,
                               !.credKnown = (getCredentialById(cred) # NoCred)]
           u == getUserByUsername(username) IN
       IF u = NoRow
       THEN Finish(p, r, Error(400, "User not found"))
       ELSE Goto(p, [r EXCEPT !.user = u], "rc_precheck")
  /\ UNCHANGED <<store, db, now, ids, wins, mintedBy, loggedOut, issued, budget>>

AlreadyRegistered(r) ==
  [NoResp EXCEPT !.status = 200, !.verified = TRUE, !.username = r.user.username,
                 !.message = "Credential already registered"]

\* a handler without the duplicate pre-check: straight on to verification
RegCompleteNoPreCheck(p) ==
  /\ req[p].pc = "rc_precheck"
  /\ Goto(p, req[p], "rc_verify")
  /\ UNCHANGED <<store, db, now, ids, wins, mintedBy, loggedOut, issued, budget>>

\* const existingCredential = await getCredentialById(credential.id)
RegCompletePreCheck(p) ==
  LET r == req[p] IN
  /\ r.pc = "rc_precheck"
  /\ IF getCredentialById(r.cred) # NoCred
     THEN Finish(p, r, AlreadyRegistered(r))
     ELSE Goto(p, r, "rc_verify")
  /\ UNCHANGED <<store, db, now, ids, wins, mintedBy, loggedOut, issued, budget>>

\* const verification = await verifyRegistrationResponse({...})
RegCompleteVerify(p) ==
  /\ req[p].pc = "rc_verify"
  /\ \E cer \in Ceremonies(req[p].token) :
       LET r == [req[p] EXCEPT !.cer = cer]
           v == verifyRegistrationResponse(cer, r.expectedChallenge)
           r1 == [r EXCEPT !.verifyCalled = TRUE, !.verifyOk = (v = "verified")] IN
       CASE v = "verified" -> Goto(p, r1, "rc_recheck")
         [] v = "failed" -> Finish(p, r1, Error(400, "Registration verification failed"))
         [] OTHER -> Finish(p, r1, Error(500, "Failed to verify registration"))
  /\ UNCHANGED <<store, db, now, ids, wins, mintedBy, loggedOut, issued, budget>>

\* const duplicateCheck = await getCredentialById(credential.id)
RegCompleteReCheck(p) ==
  LET r == req[p] IN
  /\ r.pc = "rc_recheck"
  /\ IF getCredentialById(r.cred) # NoCred
     THEN Finish(p, r, AlreadyRegistered(r))
     ELSE Goto(p, r, "rc_save")
  /\ UNCHANGED <<store, db, now, ids, wins, mintedBy, loggedOut, issued, budget>>

\* the schema of migration 001 alone, before 002 adds unique_user_rp
ViolatedNoUserRp(credentialId, userId, rpId) ==
  {k \in {"passkey_credentials_pkey", "unique_raw_id"} :
     \/ k = "passkey_credentials_pkey" /\ \E c \in creds : c.id = credentialId
     \/ k = "unique_raw_id" /\ \E c \in creds : c.raw_id = credentialId}

\* the constraints of passkey_credentials an INSERT of (id, user_id, raw_id, rp_id)
\* would violate: the primary key, UNIQUE(raw_id), unique_user_rp
Violated(credentialId, userId, rpId) ==
  {k \in {"passkey_credentials_pkey", "unique_raw_id", "unique_user_rp"} :
     \/ k = "passkey_credentials_pkey" /\ \E c \in creds : c.id = credentialId
     \/ k = "unique_raw_id" /\ \E c \in creds : c.raw_id = credentialId
     \/ k = "unique_user_rp" /\ \E c \in creds : c.user_id = userId /\ c.rp_id = rpId}

\* await saveCredential(user.id, credential.id, credentialPublicKey, credentialID, RP_ID)
saveCredential(userId, credentialId, rpId) ==
  IF Violated(credentialId, userId, rpId) # {} THEN creds
  ELSE creds \cup {[id |-> credentialId, user_id |-> userId, raw_id |-> credentialId,
                    rp_id |-> rpId, counter |-> 0]}

RegCompleteSave(p) ==
  LET r == req[p] IN
  /\ r.pc = "rc_save"
  /\ creds' = saveCredential(r.user.id, r.cred, RP_ID)
  /\ IF Violated(r.cred, r.user.id, RP_ID) # {}
     THEN Goto(p, [r EXCEPT !.save = "conflict"], "rc_23505")
     ELSE Goto(p, [r EXCEPT !.save = "ok"], "rc_session")
  /\ UNCHANGED <<store, users, nextUserId, now, ids, wins, mintedBy, loggedOut, issued, budget>>

\* createUserSession, createSessionToken, res.json({verified: true, ...})
RegCompleteSession(p) ==
  LET r == req[p] IN
  /\ r.pc = "rc_session"
  /\ IssueSession(p, r, r.user, r.user.username, "")
  /\ UNCHANGED <<challenges, redisUp, db, now, nextId, wins, mintedBy, loggedOut, budget>>

\* catch (error) with error.code === '23505': a session for the user named in the
\* request, and verified: true with a message chosen by the violated constraint
RegCompleteConflict(p) ==
  LET r == req[p]
      u == getUserByUsername(r.username) IN
  /\ r.pc = "rc_23505"
  /\ \E k \in Violated(r.cred, r.user.id, RP_ID) :
       LET message == CASE k = "unique_user_rp" -> "User already has a passkey for this service"
                        [] k = "unique_raw_id" -> "This passkey is already registered"
                        [] OTHER -> "Credential already registered" IN
       IssueSession(p, r, u, r.username, message)
  /\ UNCHANGED <<challenges, redisUp, db, now, nextId, wins, mintedBy, loggedOut, budget>>

(***************************************************************************)
(* POST /api/authenticate/complete                                         *)
(***************************************************************************)
\* base64url.encode(base64url.toBuffer(rawId)): decoding accepts padded input,
\* encoding emits the unpadded base64url form
Reencode(rawId) == IF rawId = "cX==" THEN "cX" ELSE rawId

\* the assertions a client can send with token t for the credential it names
Assertions(t) == {[chal |-> c, ok |-> k, counter |-> n] :
                    c \in {t, NoChallenge}, k \in BOOLEAN, n \in Counters}

\* the library throws on an unexpected challenge and on a counter that did not
\* advance past the stored one; otherwise it reports whether the signature holds
verifyAuthenticationResponse(cer, expectedChallenge, stored) ==
  IF cer.chal # expectedChallenge THEN "throws"
  ELSE IF ~cer.ok THEN "failed"
  ELSE IF (cer.counter > 0 \/ stored.counter > 0) /\ cer.counter <= stored.counter
       THEN "throws"
  ELSE "verified"

StartAuthComplete(p) ==
  /\ Free(p) /\ CanStart
  /\ \E token \in Presentable :
       LET r == [Idle EXCEPT !.op = "authComplete", !.token = token,
                             !.afterReject = token \in rejected] IN
       IF token = NoToken
       THEN Finish(p, r, Error(400, "Credential and challenge token are required"))
       ELSE Goto(p, r, "ac_lookup")
  /\ budget' = Spend
  /\ UNCHANGED <<store, db, now, ids, wins, mintedBy, loggedOut, issued>>

\* let storedCredential = await getCredentialById(credential.id)
AuthCompleteLookup(p) ==
  /\ req[p].pc = "ac_lookup"
  /\ \E cred \in CredIds :
       LET c == getCredentialById(cred)
           r == [req[p] EXCEPT !.cred = cred, !.stored = c] IN
       Goto(p, r, IF c = NoCred THEN "ac_lookup2" ELSE "ac_get")
  /\ UNCHANGED <<store, db, now, ids, wins, mintedBy, loggedOut, issued, budget>>

\* a fallback that settles for the credential stored under "cX"
getCredentialByRawIdAny(rawId) == getCredentialById("cX")

\* getCredentialById(base64url.encode(base64url.toBuffer(credential.rawId)))
getCredentialByRawId(rawId) == getCredentialById(Reencode(rawId))

\* storedCredential = await getCredentialById(base64url.encode(rawIdBuffer))
AuthCompleteLookupRaw(p) ==
  /\ req[p].pc = "ac_lookup2"
  /\ \E rawId \in RawIds :
       LET c == getCredentialByRawId(rawId)
           r == [req[p] EXCEPT !.rawId = rawId, !.stored = c] IN
       IF c = NoCred
       THEN Finish(p, r, Error(400, "Credential not found"))
       ELSE Goto(p, r, "ac_get")
  /\ UNCHANGED <<store, db, now, ids, wins, mintedBy, loggedOut, issued, budget>>

AuthCompleteGet(p) == ConsumeGet(p, "ac_get", "ac_del", InvalidChallenge)

AuthCompleteDel(p) == ConsumeDel(p, "ac_del", "ac_verify", InvalidChallenge)

\* const verification = await verifyAuthenticationResponse({...})
AuthCompleteVerify(p) ==
  /\ req[p].pc = "ac_verify"
  /\ \E cer \in Assertions(req[p].token) :
       LET r == [req[p] EXCEPT !.cer = cer]
           v == verifyAuthenticationResponse(cer, r.expectedChallenge, r.stored)
           r1 == [r EXCEPT !.verifyCalled = TRUE, !.verifyOk = (v = "verified"),
                           !.mismatch = (cer.chal # r.expectedChallenge)] IN
       CASE v = "verified" -> Goto(p, r1, "ac_update")
         [] v = "failed" -> Finish(p, r1, Error(400, "Authentication verification failed"))
         [] OTHER -> Finish(p, r1, Error(500, "Failed to verify authentication"))
  /\ UNCHANGED <<store, db, now, ids, wins, mintedBy, loggedOut, issued, budget>>

\* UPDATE passkey_credentials SET counter = $1 ... WHERE id = $2
updateCredentialCounter(credentialId, counter) ==
  {IF c.id = credentialId THEN [c EXCEPT !.counter = counter] ELSE c : c \in creds}

\* await updateCredentialCounter(storedCredential.id, newCounter)
AuthCompleteUpdate(p) ==
  LET r == req[p] IN
  /\ r.pc = "ac_update"
  /\ creds' = updateCredentialCounter(r.stored.id, r.cer.counter)
  /\ Goto(p, [r EXCEPT !.counterUpdated = TRUE], "ac_session")
  /\ UNCHANGED <<store, users, nextUserId, now, ids, wins, mintedBy, loggedOut, issued, budget>>

\* getUserByUsername(storedCredential.username), createUserSession,
\* createSessionToken, res.json({verified: true, ...})
AuthCompleteSession(p) ==
  LET r == req[p]
      u == getUserByUsername(r.stored.username) IN
  /\ r.pc = "ac_session"
  /\ IssueSession(p, [r EXCEPT !.user = u], u, r.stored.username, "")
  /\ UNCHANGED <<challenges, redisUp, db, now, nextId, wins, mintedBy, loggedOut, budget>>

(***************************************************************************)
(* Sessions: the passkeys.sid cookie of express-session (Redis store) and  *)
(* the bearer token under session:<token>.                                 *)
(***************************************************************************)
\* cookies a client may hold; a request that carries a cookie while Redis is
\* unreachable is answered by the session middleware and never reaches a handler
Sids == IF redisUp THEN {NoSession} \cup DOMAIN cookies ELSE {NoSession}

\* bearer tokens a client may present: none, or any uuid handed out so far
Bearers == 0..(nextSession - 1)

\* a server that does not look at the cookie
CookieSessionNone(sid) == NoRow

\* req.session as the middleware loads it: the record when the store has it
CookieSession(sid) == IF redisUp /\ Live(cookies, sid) THEN cookies[sid] ELSE NoRow

\* a key stored with the time to live ttl, never refreshed since, more than ttl old
Stale(map, k, ttl) ==
  /\ k \in DOMAIN map
  /\ map[k].expiresAt = map[k].loginTime + ttl
  /\ now >= map[k].loginTime + ttl + 1

\* the request as it arrives: what it presents, and what is known of it then
Arrives(op, sid, bearer) ==
  [Idle EXCEPT !.op = op, !.sid = sid, !.bearer = bearer, !.at = now,
               !.afterLogout = bearer \in loggedOut,
               !.stale = /\ sid # NoSession \/ bearer # NoSession
                         /\ sid = NoSession \/ Stale(cookies, sid, CookieTtlSeconds)
                         /\ bearer = NoSession \/ Stale(sessions, bearer, SessionTtlSeconds)]

\* a GET that returns whatever was stored under the key, expired or not
redisGetSessionStale(token) ==
  IF redisUp /\ token \in DOMAIN sessions THEN sessions[token] ELSE NoRow

\* validateSessionToken, first await: redisClient.get(key); null when the key is
\* absent or expired, and when Redis throws
redisGetSession(token) ==
  IF redisUp /\ Live(sessions, token) THEN sessions[token] ELSE NoRow

\* validateSessionToken, second await: setEx(key, ttl, sessionDataStr); writes the
\* string read by the GET, whether or not the key still exists
refreshSession(token, data) ==
  IF redisUp
  THEN Put(sessions, token, [data EXCEPT !.expiresAt = now + SessionTtlSeconds])
  ELSE sessions

\* a DEL that leaves the key in place
redisDelSessionKept(token) == sessions

\* deleteSessionToken: redisClient.del(key); a Redis error is logged and dropped
redisDelSession(token) == IF redisUp THEN Remove(sessions, token) ELSE sessions

NotAuthenticated == [NoResp EXCEPT !.status = 200]

\* expiresAt is new Date(Date.now() + SESSION_MAX_AGE) on the cookie branch and
\* new Date(sessionData.loginTime + SESSION_TOKEN_TIMEOUT) on the token branch
Authenticated(data, expiresAt) ==
  [NoResp EXCEPT !.status = 200, !.authenticated = TRUE, !.userId = data.userId,
                 !.username = data.username, !.expiresAt = expiresAt]

(***************************************************************************)
(* GET /api/auth/status                                                    *)
(***************************************************************************)
\* the session cookie first; the middleware touches a loaded session when the
\* response ends, which restarts its time to live in the store
StartStatus(p) ==
  /\ Free(p) /\ CanStart
  /\ \E sid \in Sids, bearer \in Bearers :
       LET c == CookieSession(sid)
           r == Arrives("status", sid, bearer) IN
       IF c # NoRow
       THEN /\ cookies' = Put(cookies, sid, [c EXCEPT !.expiresAt = now + CookieTtlSeconds])
            /\ Finish(p, [r EXCEPT !.cookie = [id |-> c.userId, username |-> c.username]],
                      Authenticated(c, now + SESSION_MAX_AGE \div 1000))
       ELSE /\ cookies' = cookies
            /\ IF bearer = NoSession
               THEN Finish(p, r, NotAuthenticated)
               ELSE Goto(p, r, "st_get")
  /\ budget' = Spend
  /\ UNCHANGED <<challenges, sessions, redisUp, db, now, ids, wins, mintedBy, loggedOut,
                 issued>>

StatusGet(p) ==
  LET r == req[p]
      d == redisGetSession(r.bearer)
      r1 == [r EXCEPT !.getDone = TRUE, !.liveAtGet = (d # NoRow), !.sessionData = d] IN
  /\ r.pc = "st_get"
  /\ IF d = NoRow
     THEN Finish(p, r1, NotAuthenticated)
     ELSE Goto(p, r1, "st_refresh")
  /\ UNCHANGED <<store, db, now, ids, wins, mintedBy, loggedOut, issued, budget>>

StatusRefresh(p) ==
  LET r == req[p] IN
  /\ r.pc = "st_refresh"
  /\ sessions' = refreshSession(r.bearer, r.sessionData)
  /\ IF redisUp
     THEN Finish(p, r, Authenticated(r.sessionData,
                                     r.sessionData.loginTime + SESSION_TOKEN_TIMEOUT \div 1000))
     ELSE Finish(p, [r EXCEPT !.storeFailed = TRUE, !.sessionData = NoRow], NotAuthenticated)
  /\ UNCHANGED <<challenges, cookies, redisUp, db, now, ids, wins, mintedBy, loggedOut,
                 issued, budget>>

(***************************************************************************)
(* POST /api/auth/logout                                                   *)
(***************************************************************************)
\* the username the handler answers with, given the one it has so far
\* and what validateSessionToken returned
logoutUsernameKept(username, sessionData) == username

logoutUsername(username, sessionData) ==
  IF sessionData # NoRow THEN sessionData.username ELSE username

LoggedOut(username) ==
  [NoResp EXCEPT !.status = 200, !.message = "Logged out successfully",
                 !.username = username]

\* let username = 'Unknown'; the cookie branch: req.session.username, and
\* destroyUserSession(req), whose DEL is sent before the handler goes on
StartLogout(p) ==
  /\ Free(p) /\ CanStart
  /\ \E sid \in Sids, bearer \in Bearers :
       LET c == CookieSession(sid)
           r0 == Arrives("logout", sid, bearer)
           r == IF c # NoRow
                THEN [r0 EXCEPT !.username = c.username,
                                !.cookie = [id |-> c.userId, username |-> c.username]]
                ELSE [r0 EXCEPT !.username = "Unknown"] IN
       /\ cookies' = IF c # NoRow THEN Remove(cookies, sid) ELSE cookies
       /\ IF bearer = NoSession
          THEN Finish(p, r, LoggedOut(r.username))
          ELSE Goto(p, r, "lo_get")
  /\ budget' = Spend
  /\ UNCHANGED <<challenges, sessions, redisUp, db, now, ids, wins, mintedBy, loggedOut,
                 issued>>

\* const sessionData = await validateSessionToken(sessionToken): the GET
LogoutGet(p) ==
  LET r == req[p]
      d == redisGetSession(r.bearer)
      r1 == [r EXCEPT !.getDone = TRUE, !.liveAtGet = (d # NoRow), !.sessionData = d] IN
  /\ r.pc = "lo_get"
  /\ Goto(p, r1, IF d = NoRow THEN "lo_del" ELSE "lo_refresh")
  /\ UNCHANGED <<store, db, now, ids, wins, mintedBy, loggedOut, issued, budget>>

\* ... and its refresh; a Redis error here makes validateSessionToken return null
LogoutRefresh(p) ==
  LET r == req[p] IN
  /\ r.pc = "lo_refresh"
  /\ sessions' = refreshSession(r.bearer, r.sessionData)
  /\ Goto(p, IF redisUp THEN r ELSE [r EXCEPT !.storeFailed = TRUE, !.sessionData = NoRow],
          "lo_del")
  /\ UNCHANGED <<challenges, cookies, redisUp, db, now, ids, wins, mintedBy, loggedOut,
                 issued, budget>>

\* if (sessionData) username = sessionData.username;
\* await deleteSessionToken(sessionToken); res.json(...)
LogoutDel(p) ==
  LET r == req[p] IN
  /\ r.pc = "lo_del"
  /\ sessions' = redisDelSession(r.bearer)
  /\ loggedOut' = IF redisUp THEN loggedOut \cup {r.bearer} ELSE loggedOut
  /\ Finish(p, r, LoggedOut(logoutUsername(r.username, r.sessionData)))
  /\ UNCHANGED <<challenges, cookies, redisUp, db, now, ids, wins, mintedBy, issued, budget>>

\* one step of a session handler
(***************************************************************************)
(* GET /api/users/:username/credentials, behind requireAuth                *)
(***************************************************************************)
AuthenticationRequired == Error(401, "Authentication required")

\* requireAuth: next() when req.session.userId is set; otherwise the bearer token
\* goes to validateSessionToken
StartCredentials(p) ==
  /\ Free(p) /\ CanStart
  /\ \E sid \in Sids, bearer \in Bearers, username \in Usernames :
       LET c == CookieSession(sid)
           r == [Arrives("credentials", sid, bearer) EXCEPT !.username = username] IN
       IF c # NoRow
       THEN Goto(p, [r EXCEPT !.cookie = [id |-> c.userId, username |-> c.username]],
                 "cr_answer")
       ELSE IF bearer = NoSession
       THEN Finish(p, r, AuthenticationRequired)
       ELSE Goto(p, r, "cr_get")
  /\ budget' = Spend
  /\ UNCHANGED <<store, db, now, ids, wins, mintedBy, loggedOut, issued>>

CredentialsGet(p) ==
  LET r == req[p]
      d == redisGetSession(r.bearer)
      r1 == [r EXCEPT !.getDone = TRUE, !.liveAtGet = (d # NoRow), !.sessionData = d] IN
  /\ r.pc = "cr_get"
  /\ IF d = NoRow
     THEN Finish(p, r1, AuthenticationRequired)
     ELSE Goto(p, r1, "cr_refresh")
  /\ UNCHANGED <<store, db, now, ids, wins, mintedBy, loggedOut, issued, budget>>

\* req.sessionData = sessionData; next()
CredentialsRefresh(p) ==
  LET r == req[p] IN
  /\ r.pc = "cr_refresh"
  /\ sessions' = refreshSession(r.bearer, r.sessionData)
  /\ IF redisUp
     THEN Goto(p, r, "cr_answer")
     ELSE Finish(p, [r EXCEPT !.storeFailed = TRUE, !.sessionData = NoRow],
                 AuthenticationRequired)
  /\ UNCHANGED <<challenges, cookies, redisUp, db, now, ids, wins, mintedBy, loggedOut,
                 issued, budget>>

\* req.session.username: set on a session loaded from the cookie, undefined on a
\* request that requireAuth let through by its bearer token
reqSessionUsername(r) == IF r.cookie # NoRow THEN r.cookie.username ELSE NoName

\* the handler: 403 unless req.session.username is the name in the URL, then the
\* user and its credentials are read; a loaded cookie session is touched when the
\* response ends
CredentialsAnswer(p) ==
  LET r == req[p]
      user == getUserByUsername(r.username) IN
  /\ r.pc = "cr_answer"
  /\ cookies' = IF r.cookie # NoRow /\ redisUp /\ r.sid \in DOMAIN cookies
                THEN Put(cookies, r.sid, [cookies[r.sid] EXCEPT
                                            !.expiresAt = now + CookieTtlSeconds])
                ELSE cookies
  /\ IF reqSessionUsername(r) # r.username
     THEN Finish(p, r, Error(403, "Access denied"))
     ELSE IF user = NoRow
     THEN Finish(p, r, Error(404, "User not found"))
     ELSE Finish(p, r, [NoResp EXCEPT !.status = 200,
                                      !.credentials = getCredentialsByUserId(user.id)])
  /\ UNCHANGED <<challenges, sessions, redisUp, db, now, ids, wins, mintedBy, loggedOut,
                 issued, budget>>

CredentialsSteps(p) ==
  \/ StartCredentials(p)
  \/ CredentialsGet(p)
  \/ CredentialsRefresh(p)
  \/ CredentialsAnswer(p)

SessionSteps(p) ==
  \/ StartStatus(p)
  \/ StatusGet(p)
  \/ StatusRefresh(p)
  \/ StartLogout(p)
  \/ LogoutGet(p)
  \/ LogoutRefresh(p)
  \/ LogoutDel(p)

\* one step of a registration handler
RegSteps(p) ==
  \/ StartRegBegin(p)
  \/ RegBeginUser(p)
  \/ RegBeginCreate(p)
  \/ RegBeginMint(p)
  \/ StartRegComplete(p)
  \/ RegCompleteGet(p)
  \/ RegCompleteDel(p)
  \/ RegCompleteUser(p)
  \/ RegCompletePreCheck(p)
  \/ RegCompleteVerify(p)
  \/ RegCompleteReCheck(p)
  \/ RegCompleteSave(p)
  \/ RegCompleteSession(p)
  \/ RegCompleteConflict(p)

\* one step of an authentication handler
AuthSteps(p) ==
  \/ StartAuthBegin(p)
  \/ StartAuthComplete(p)
  \/ AuthCompleteLookup(p)
  \/ AuthCompleteLookupRaw(p)
  \/ AuthCompleteGet(p)
  \/ AuthCompleteDel(p)
  \/ AuthCompleteVerify(p)
  \/ AuthCompleteUpdate(p)
  \/ AuthCompleteSession(p)

\* one step of handler process p
Steps(p) == RegSteps(p) \/ AuthSteps(p)

Handlers == \E p \in Procs : Steps(p)

\* the handlers alone: Redis reachable, and no challenge or session old enough to expire
Next == Handlers

Spec == Init /\ [][Next]_vars

\* requests handled one at a time, with the clock moving and Redis failing and
\* recovering between any two steps
NextEnv ==
  \/ Steps(1)
  \/ Advance
  \/ RedisFail
  \/ RedisRecover

SpecEnv == InitEnv /\ [][NextEnv]_vars

\* the registration-begin handlers alone, over every accepted spelling of a name
NextUsers ==
  \E p \in Procs :
    StartRegBeginOf(p, BeginNames) \/ RegBeginUser(p) \/ RegBeginCreate(p) \/ RegBeginMint(p)

InitUsers == (Fresh \/ Registered) /\ Start(MaxUserRequests, 0)

SpecUsers == InitUsers /\ [][NextUsers]_vars

(***************************************************************************)
(* POST /api/check-username, and registration as the page drives it        *)
(***************************************************************************)
\* validateUsername, then getUserByUsername(username.trim()): available when no
\* user row has the name
CheckUsername(p) ==
  /\ Free(p) /\ CanStart
  /\ \E username \in BeginNames \cup {NoName} :
       LET r == [Idle EXCEPT !.op = "checkUsername", !.username = username] IN
       IF ~validateUsername(username)
       THEN Finish(p, r, Error(400, "Invalid username"))
       ELSE Finish(p, r, [NoResp EXCEPT !.status = 200, !.username = trim(username),
                                        !.available = getUserByUsername(trim(username)) = NoRow])
  /\ budget' = Spend
  /\ UNCHANGED <<store, db, now, ids, wins, mintedBy, loggedOut, issued>>

\* PasskeysApp.handleRegister: ValidationService.validateUsernameComplete has just
\* answered, and register/begin is called for the username only when it is valid
\* and available
HandleRegister(p) ==
  /\ last.op = "checkUsername" /\ last.resp.available
  /\ StartRegBeginOf(p, {last.username})

\* registrations made through the page, one request at a time; an attempt may be
\* given up after any request
NextClientFlow ==
  \/ CheckUsername(1)
  \/ HandleRegister(1)
  \/ RegBeginUser(1)
  \/ RegBeginCreate(1)
  \/ RegBeginMint(1)
  \/ StartRegComplete(1)
  \/ RegCompleteGet(1)
  \/ RegCompleteDel(1)
  \/ RegCompleteUser(1)
  \/ RegCompletePreCheck(1)
  \/ RegCompleteVerify(1)
  \/ RegCompleteReCheck(1)
  \/ RegCompleteSave(1)
  \/ RegCompleteSession(1)
  \/ RegCompleteConflict(1)

InitClientFlow == Fresh /\ Start(MaxFlowRequests, 0)

SpecClientFlow == InitClientFlow /\ [][NextClientFlow]_vars

\* privileged requests and session calls, one at a time, on the session a
\* registration left
NextPrivileged == CredentialsSteps(1) \/ SessionSteps(1)

InitPrivileged == Registered /\ Start(MaxPrivRequests, 0)

SpecPrivileged == InitPrivileged /\ [][NextPrivileged]_vars

\* the authentication handlers alone, on the database a registration left
NextAuth == \E p \in Procs : AuthSteps(p)

InitAuth == Registered /\ Start(MaxAuthRequests, 0)

SpecAuth == InitAuth /\ [][NextAuth]_vars

\* Registered is a state of the program: Fresh reaches it (TLC finds
\* NotRegistered violated under SpecFresh)
\* the session handlers alone, concurrently, on the session a registration left
NextSession == \E p \in Procs : SessionSteps(p)

InitSession == Registered /\ Start(MaxSessionRequests, 0)

SpecSession == InitSession /\ [][NextSession]_vars

\* registration, authentication and session requests handled one at a time
NextSeq == Steps(1) \/ SessionSteps(1)

InitSeq == Registered /\ Start(MaxSeqRequests, 0)

SpecSeq == InitSeq /\ [][NextSeq]_vars

\* session requests handled one at a time, with the clock moving by about a week
\* and Redis failing and recovering between any two steps
NextSessionEnv ==
  \/ SessionSteps(1)
  \/ AdvanceSession
  \/ RedisFail
  \/ RedisRecover

InitSessionEnv == Registered /\ Start(MaxSessionEnvRequests, MaxSessionAdvance)

SpecSessionEnv == InitSessionEnv /\ [][NextSessionEnv]_vars

SpecFresh == Fresh /\ Start(MaxRequests, 0) /\ [][Next]_vars

NotRegistered == ~(Registered /\ \A p \in Procs : req[p] = Idle)

(***************************************************************************)
(* SessionManager (src/src/services/SessionManager.ts) in one browser page, *)
(* with AuthService as its way to the server.  The server is seen from the *)
(* page: whether it resolves the page's cookie and bearer token (net).     *)
(***************************************************************************)
server == <<challenges, sessions, cookies, redisUp, users, creds, nextId, nextSession,
            nextUserId, req, last, wins, rejected, mintedBy, loggedOut, issued>>

\* the manager at the start of a step: nothing emitted or returned in it yet
Begin == [sm EXCEPT !.emits = <<>>, !.delivered = {}, !.did = "",
                    !.returned = "", !.ok = FALSE]

Range(q) == {q[i] : i \in DOMAIN q}

\* emit(event): every registered listener is called with the event
emit(w, type) ==
  [w EXCEPT !.emits = Append(@, type),
            !.emitted = IF type \in DOMAIN @ THEN [@ EXCEPT ![type] = @ + 1] ELSE @,
            !.delivered = @ \cup Range(w.listeners)]

\* a clearSessionMonitoring that leaves the reconciliation interval running
clearSessionMonitoringTimeoutOnly(w) ==
  [w EXCEPT !.timers = {t \in @ : t.id # w.expirationTimeout},
            !.expirationTimeout = NoTimer]

\* clearSessionMonitoring(): clearInterval / clearTimeout on the non-null handles
clearSessionMonitoring(w) ==
  [w EXCEPT !.timers = {t \in @ : t.id \notin {w.checkInterval, w.expirationTimeout}},
            !.checkInterval = NoTimer, !.expirationTimeout = NoTimer]

\* window.setTimeout / window.setInterval return a handle not in use
FreshTimer(timers) ==
  CHOOSE n \in 1..(Cardinality(timers) + 1) : \A t \in timers : t.id # n

RECURSIVE setSession(_, _, _)

\* handleSessionExpiration()
handleSessionExpiration(w) == setSession(w, Unauthenticated, "sessionExpired")

\* a setupSessionMonitoring that does not clear what is pending first
setupSessionMonitoringNoClear(w) ==
  IF ~w.session.authenticated \/ w.session.expiresAt = 0 THEN w
  ELSE IF w.session.expiresAt - now <= 0 THEN handleSessionExpiration(w)
  ELSE LET timeout == [id |-> FreshTimer(w.timers), kind |-> "timeout",
                       at |-> w.session.expiresAt]
           interval == [id |-> FreshTimer(w.timers \cup {timeout}), kind |-> "interval",
                        at |-> 0] IN
       [w EXCEPT !.expirationTimeout = timeout.id, !.checkInterval = interval.id,
                 !.timers = @ \cup {timeout, interval}]

\* a setupSessionMonitoring that schedules the expiration timeout only
setupSessionMonitoringTimeoutOnly(w) ==
  LET c == clearSessionMonitoring(w) IN
  IF ~c.session.authenticated \/ c.session.expiresAt = 0 THEN c
  ELSE IF c.session.expiresAt - now <= 0 THEN handleSessionExpiration(c)
  ELSE LET timeout == [id |-> FreshTimer(c.timers), kind |-> "timeout",
                       at |-> c.session.expiresAt] IN
       [c EXCEPT !.expirationTimeout = timeout.id, !.timers = @ \cup {timeout}]

\* setupSessionMonitoring(): clear, then a timeout at expiresAt and the
\* reconciliation interval; a session already past its expiresAt expires at once
setupSessionMonitoring(w) ==
  LET c == clearSessionMonitoring(w) IN
  IF ~c.session.authenticated \/ c.session.expiresAt = 0 THEN c
  ELSE IF c.session.expiresAt - now <= 0 THEN handleSessionExpiration(c)
  ELSE LET timeout == [id |-> FreshTimer(c.timers), kind |-> "timeout",
                       at |-> c.session.expiresAt]
           interval == [id |-> FreshTimer(c.timers \cup {timeout}), kind |-> "interval",
                        at |-> 0] IN
       [c EXCEPT !.expirationTimeout = timeout.id, !.checkInterval = interval.id,
                 !.timers = @ \cup {timeout, interval}]

\* a setSession that keeps the profile of a session that ended
setSessionKeepsProfile(w, newSession, eventType) ==
  LET wasAuthenticated == w.session.authenticated
      w2 == emit([w EXCEPT !.session = newSession], eventType) IN
  IF newSession.authenticated /\ ~wasAuthenticated THEN setupSessionMonitoring(w2)
  ELSE IF ~newSession.authenticated /\ wasAuthenticated THEN clearSessionMonitoring(w2)
  ELSE w2

\* setSession(newSession, eventType)
setSession(w, newSession, eventType) ==
  LET wasAuthenticated == w.session.authenticated
      w1 == [w EXCEPT !.session = newSession,
                      !.profile = IF newSession.authenticated THEN @ ELSE NoProfile]
      w2 == emit(w1, eventType) IN
  IF newSession.authenticated /\ ~wasAuthenticated THEN setupSessionMonitoring(w2)
  ELSE IF ~newSession.authenticated /\ wasAuthenticated THEN clearSessionMonitoring(w2)
  ELSE w2

\* GET /api/auth/status as this page gets it answered: the cookie first (expiresAt
\* is the time of the call plus the lifetime), then the bearer token of
\* localStorage (expiresAt is the login time plus the lifetime)
Status(n) ==
  IF n.cookie
  THEN [authenticated |-> TRUE, expiresAt |-> now + SessionLife, username |-> n.username]
  ELSE IF n.storedToken /\ n.token
  THEN [authenticated |-> TRUE, expiresAt |-> n.loginTime + SessionLife,
        username |-> n.username]
  ELSE Unauthenticated

\* AuthService.checkAuthStatus(): the answer, or { authenticated: false } when the
\* call failed
StatusResponses(n) == {Status(n), Unauthenticated}

\* AuthService.getUserProfile(): resolves when requireAuth finds a session, and
\* rejects otherwise or when the call failed
ProfileResults(n) == {n.cookie \/ (n.storedToken /\ n.token), FALSE}

\* the calls of the manager's methods that are waiting on an await, as a bag
Pending == BagToSet(tasks)

Room == BagCardinality(tasks) < MaxTasks

Task(kind, pc, resp, profileOk) ==
  [kind |-> kind, pc |-> pc, resp |-> resp, profileOk |-> profileOk]

Spawn(u) == tasks' = tasks (+) SetToBag({u})

Await(t, u) == tasks' = (tasks (-) SetToBag({t})) (+) SetToBag({u})

\* the finally block of initializeSession emitting the event a second time
finishInitializationTwice(w) ==
  emit(emit([w EXCEPT !.isInitialized = TRUE], "sessionInitialized"), "sessionInitialized")

\* the finally block of initializeSession
finishInitialization(w) == emit([w EXCEPT !.isInitialized = TRUE], "sessionInitialized")

\* the method of task i runs to its end from manager state w
Return(t, w) ==
  LET kind == t.kind
      w1 == IF kind = "init" THEN finishInitialization(setupSessionMonitoring(w)) ELSE w IN
  /\ sm' = [w1 EXCEPT !.returned = kind, !.ok = TRUE,
                       !.afterLogout = (kind = "logout") \/ @]
  /\ tasks' = tasks (-) SetToBag({t})

\* `const session = await AuthService.checkAuthStatus()' settles in
\* initializeSession or refreshSession: setSession(session, 'sessionChange'), and
\* the profile is asked for when the session is authenticated
StatusSettles(t) ==
  LET w == setSession(Begin, t.resp, "sessionChange") IN
  /\ t.pc = "status"
  /\ IF t.resp.authenticated
     THEN /\ sm' = w
          /\ \E ok \in ProfileResults(net) : Await(t, Task(t.kind, "profile", t.resp, ok))
     ELSE Return(t, w)
  /\ UNCHANGED <<server, now, budget, net>>

\* `this.profile = await AuthService.getUserProfile()' settles
ProfileSettles(t) ==
  LET w == Begin IN
  /\ t.pc = "profile"
  /\ Return(t, IF t.profileOk THEN [w EXCEPT !.profile = t.resp.username] ELSE w)
  /\ UNCHANGED <<server, now, budget, net>>

\* refreshSession() called by the page
CallRefreshSession ==
  /\ Room /\ CanStart
  /\ \E resp \in StatusResponses(net) : Spawn(Task("refresh", "status", resp, FALSE))
  /\ sm' = Begin
  /\ budget' = Spend
  /\ UNCHANGED <<server, now, net>>

\* the reconciliation interval fires: this.refreshSession().  The firings are
\* counted among the calls of a behaviour when counted is TRUE
Reconciles(counted) ==
  /\ Room
  /\ \E t \in sm.timers : t.kind = "interval"
  /\ \E resp \in StatusResponses(net) : Spawn(Task("refresh", "status", resp, FALSE))
  /\ sm' = Begin
  /\ IF counted THEN CanStart /\ budget' = Spend ELSE budget' = budget
  /\ UNCHANGED <<server, now, net>>

IntervalFires == Reconciles(TRUE)

\* the interval goes on firing for as long as it is pending
IntervalKeepsFiring == Reconciles(FALSE)

\* the expiration timeout fires, at its time or later: handleSessionExpiration()
TimeoutFires ==
  /\ \E t \in sm.timers :
       /\ t.kind = "timeout" /\ t.at <= now
       /\ sm' = handleSessionExpiration([Begin EXCEPT !.did = "timeout", !.timers = @ \ {t}])
  /\ UNCHANGED <<server, now, budget, tasks, net>>

\* login() or register(username) called by the page
CallLogin ==
  /\ Room /\ CanStart
  /\ \E kind \in {"login", "register"} : Spawn(Task(kind, "api", Unauthenticated, FALSE))
  /\ sm' = Begin
  /\ budget' = Spend
  /\ UNCHANGED <<server, now, net>>

\* AuthService.login() / register() settles: it rejects, or the server opened a
\* session (cookie and token) and the token went to localStorage; then
\* `await this.refreshSession()' begins
LoginSettles(t) ==
  /\ t.pc = "api" /\ t.kind \in {"login", "register"}
  /\ \/ /\ sm' = [Begin EXCEPT !.returned = t.kind]
        /\ tasks' = tasks (-) SetToBag({t})
        /\ net' = net
     \/ /\ sm' = [Begin EXCEPT !.afterLogout = FALSE]
        /\ net' = [cookie |-> TRUE, token |-> TRUE, storedToken |-> TRUE,
                   loginTime |-> now, username |-> "alice"]
        /\ \E resp \in StatusResponses(net') : Await(t, Task(t.kind, "status", resp, FALSE))
  /\ UNCHANGED <<server, now, budget>>

\* logout() called by the page
CallLogout ==
  /\ Room /\ CanStart
  /\ Spawn(Task("logout", "api", Unauthenticated, FALSE))
  /\ sm' = Begin
  /\ budget' = Spend
  /\ UNCHANGED <<server, now, net>>

\* AuthService.logout() settles: the server destroyed the sessions and the token
\* was removed; or the call never reached the server; or the server destroyed the
\* sessions and the answer was lost (apiCall throws, the token stays).  The
\* finally block: setSession({ authenticated: false }, 'logout')
LogoutSettles(t) ==
  /\ t.pc = "api" /\ t.kind = "logout"
  /\ \E outcome \in {"ok", "failed", "lost"} :
       net' = CASE outcome = "ok" -> [net EXCEPT !.cookie = FALSE, !.token = FALSE,
                                                  !.storedToken = FALSE]
                [] outcome = "lost" -> [net EXCEPT !.cookie = FALSE, !.token = FALSE]
                [] OTHER -> net
  /\ Return(t, setSession(Begin, Unauthenticated, "logout"))
  /\ UNCHANGED <<server, now, budget>>

\* the server's sessions for this page end (expired, or destroyed elsewhere)
ServerForgets ==
  /\ CanStart
  /\ net.cookie \/ net.token
  /\ net' = [net EXCEPT !.cookie = FALSE, !.token = FALSE]
  /\ sm' = Begin
  /\ budget' = Spend
  /\ UNCHANGED <<server, now, tasks>>

AgentTick ==
  /\ budget.advances > 0
  /\ now' = now + 1
  /\ budget' = [budget EXCEPT !.advances = @ - 1]
  /\ sm' = Begin
  /\ UNCHANGED <<server, tasks, net>>

\* q without its first element equal to x: indexOf and splice(index, 1)
RemoveFirst(q, x) ==
  IF \E i \in DOMAIN q : q[i] = x
  THEN LET i == CHOOSE j \in DOMAIN q : q[j] = x /\ \A k \in 1..(j - 1) : q[k] # x IN
       [j \in 1..(Len(q) - 1) |-> IF j < i THEN q[j] ELSE q[j + 1]]
  ELSE q

\* addEventListener(listener): the k-th subscription
Subscribe ==
  /\ CanStart
  /\ \E l \in Listeners :
       sm' = [Begin EXCEPT
                !.listeners = Append(@, l),
                !.subs = Append(@, [listener |-> l, cancelled |-> FALSE])]
  /\ budget' = Spend
  /\ UNCHANGED <<server, now, tasks, net>>

\* the function returned by the k-th addEventListener is called (again)
Unsubscribe ==
  /\ CanStart
  /\ \E k \in DOMAIN sm.subs :
       sm' = [Begin EXCEPT
                !.listeners = RemoveFirst(@, sm.subs[k].listener),
                !.subs = [@ EXCEPT ![k].cancelled = TRUE]]
  /\ budget' = Spend
  /\ UNCHANGED <<server, now, tasks, net>>

\* destroy(): clearSessionMonitoring(); this.listeners = []
Destroy ==
  /\ CanStart
  /\ sm' = [clearSessionMonitoring(Begin) EXCEPT
              !.listeners = <<>>, !.destroyed = TRUE,
              !.subs = [k \in DOMAIN @ |-> [@[k] EXCEPT !.cancelled = TRUE]]]
  /\ budget' = Spend
  /\ UNCHANGED <<server, now, tasks, net>>

NextAgent ==
  \/ \E t \in Pending :
       \/ StatusSettles(t)
       \/ ProfileSettles(t)
       \/ LoginSettles(t)
       \/ LogoutSettles(t)
  \/ CallRefreshSession
  \/ IntervalFires
  \/ CallLogin
  \/ CallLogout
  \/ TimeoutFires
  \/ ServerForgets
  \/ AgentTick
  \/ Destroy

\* the page loads: new SessionManager() calls initializeSession(), whose status
\* call is on its way; the server may hold a session from an earlier visit
PageLoads(calls, ticks) ==
  /\ Fresh /\ ServerUp(calls, ticks)
  /\ sm = NewManager
  /\ net \in {LoggedOutNet,
              [cookie |-> TRUE, token |-> TRUE, storedToken |-> TRUE, loginTime |-> 0,
               username |-> "alice"]}
  /\ \E resp \in StatusResponses(net) :
       tasks = SetToBag({Task("init", "status", resp, FALSE)})

InitAgent == PageLoads(MaxAgentCalls, MaxAgentTicks)

SpecAgent == InitAgent /\ [][NextAgent]_vars

\* The agent with its scheduling, at one instant of the browser clock: a pending
\* interval fires again and again, and every call to the server settles (fetch
\* resolves or rejects).
Settles == \E t \in Pending : StatusSettles(t) \/ ProfileSettles(t) \/ LoginSettles(t) \/ LogoutSettles(t)

NextAgentFair ==
  \/ Settles
  \/ IntervalKeepsFiring
  \/ CallRefreshSession
  \/ CallLogin
  \/ CallLogout
  \/ ServerForgets
  \/ Destroy

InitAgentFair == PageLoads(MaxFairCalls, 0)

SpecAgentFair ==
  InitAgentFair /\ [][NextAgentFair]_vars /\ WF_vars(Settles) /\ WF_vars(IntervalKeepsFiring)

\* the page subscribes and unsubscribes listeners while the manager emits events
NextListeners ==
  \/ \E t \in Pending :
       \/ StatusSettles(t)
       \/ ProfileSettles(t)
       \/ LogoutSettles(t)
  \/ CallLogout
  \/ Subscribe
  \/ Unsubscribe
  \/ Destroy

InitListeners == PageLoads(MaxListenerCalls, 0)

SpecListeners == InitListeners /\ [][NextListeners]_vars

(***************************************************************************)
(* Properties.  Requests are the handlers in flight and the request that   *)
(* was answered by the latest step.                                        *)
(***************************************************************************)
Requests == {req[p] : p \in Procs} \cup {last}

Completes == {"regComplete", "authComplete"}

RowsWithId(credentialId) == {c \in creds : c.id = credentialId}

\* C1: single use.  A getAndValidateChallenge(T) that starts after another one
\* has returned T's challenge returns null: it gets no challenge, deletes nothing,
\* and its request is answered 'Invalid or expired challenge'.
C1_SingleUse ==
  /\ \A r \in Requests :
       r.afterWin => r.expectedChallenge = NoChallenge /\ ~r.consumed /\ r.pc = "done"
  /\ last.afterWin => last.resp.status = 400 /\ last.resp.error = InvalidChallenge

\* a consume call was made on a token whose challenge had been returned before
C1_Witness == last.afterWin /\ last.getDone /\ last.resp.error = InvalidChallenge

\* C2: of the getAndValidateChallenge(T) calls that run concurrently, exactly one
\* returns the challenge: no token's challenge is returned twice.
C2_ExactlyOneWinner == \A t \in DOMAIN wins : wins[t] <= 1

\* C3: every registration-complete call that passes the challenge step, names an
\* existing user and does not fail verification is answered verified=true, and
\* exactly one credential row then holds the credential identifier it carried.
C3_OneRowAllVerified ==
  (/\ last.op = "regComplete" /\ last.consumed /\ last.user # NoRow
   /\ (last.verifyCalled => last.verifyOk))
  => last.resp.verified /\ Cardinality(RowsWithId(last.cred)) = 1

\* C4: in every complete call the challenge is consumed before verification is
\* invoked, verification succeeds before the credential is saved or the counter
\* updated, and a session is created only after that save or counter update has
\* completed successfully.
C4_Ordering ==
  \A r \in Requests :
    /\ r.verifyCalled => r.consumed
    /\ (r.save # "none" \/ r.counterUpdated) => r.verifyOk
    /\ r.sessionCreated => (r.save = "ok" \/ r.counterUpdated)

\* C5: a token passes the challenge step only of the complete operation of the
\* attempt that generated it: one from register/begin for username U only of a
\* register/complete for U, one from authenticate/begin only of an
\* authenticate/complete.
C5_BoundToAttempt ==
  \A r \in Requests :
    r.consumed =>
      LET m == mintedBy[r.token] IN
      /\ r.op = "regComplete" =>
           m.kind = "registration"
           /\ (r.username # NoName => Lower(m.username) = Lower(r.username))
      /\ r.op = "authComplete" => m.kind = "authentication"

\* C6: a consume call on a challenge that was stored, never consumed, and is five
\* minutes old or older returns null, and the complete call making it is answered
\* 400 'Invalid or expired challenge'.
C6_ExpiredIsNotFound ==
  /\ \A r \in Requests :
       r.expiredAtGet => r.expectedChallenge = NoChallenge /\ ~r.consumed /\ r.pc = "done"
  /\ last.expiredAtGet => last.resp.status = 400 /\ last.resp.error = InvalidChallenge

\* a complete call presented a challenge older than five minutes and was rejected
C6_Witness ==
  /\ last.op \in Completes /\ last.expiredAtGet /\ ~last.storeFailed
  /\ last.resp.error = InvalidChallenge

\* C7: a complete call whose consume step found Redis unreachable is not answered
\* 'Invalid or expired challenge' (stated for a token that is a live key of the
\* store, where that answer is false).
C7_DistinctOutcome ==
  (last.op \in Completes /\ last.storeFailed /\ last.liveAtGet)
  => last.resp.error # InvalidChallenge

\* C8: a registration-complete call whose token is not a live key of the store
\* when it is looked up (never stored, expired, or consumed before) is answered
\* 400 'Invalid or expired challenge' right there: no verification, no credential
\* saved, no session.
C8_DeadTokenRejected ==
  \A r \in Requests :
    (r.op = "regComplete" /\ r.getDone /\ ~r.liveAtGet) =>
      /\ r.pc = "done"
      /\ r.resp.status = 400 /\ r.resp.error = InvalidChallenge
      /\ ~r.consumed /\ ~r.verifyCalled /\ r.save = "none" /\ ~r.sessionCreated
      /\ r.resp.sessionToken = 0

\* a replay: register/complete with a token an earlier call has consumed
C8_Witness ==
  /\ last.op = "regComplete" /\ last.afterWin /\ ~last.liveAtGet
  /\ last.resp.error = InvalidChallenge

\* C9: a complete call carrying a token that an earlier, rejected complete call
\* carried does not succeed.
C9_RejectedIsTerminal == last.afterReject => ~last.resp.verified

C11_OwnerSession ==
  (/\ last.op = "regComplete" /\ last.resp.verified
   /\ last.save # "ok" /\ RowsWithId(last.cred) # {})
  => LET owner == getCredentialById(last.cred) IN
     /\ last.sessionCreated
     /\ last.cookie.id = owner.user_id
     /\ Lower(last.resp.username) = owner.username

\* C12: every register/complete or authenticate/complete response with
\* verified=true carries a session token, and that token is a stored session of
\* the user named in the response.
C12_VerifiedHasSession ==
  (last.op \in Completes /\ last.resp.verified)
  => /\ last.resp.sessionToken # 0
     /\ Live(sessions, last.resp.sessionToken)
     /\ sessions[last.resp.sessionToken].username = Lower(last.resp.username)

\* C13: no step lowers the stored signature counter of a credential (stated for
\* behaviours in which no challenge was returned twice).
C13_CounterMonotone ==
  [][(\A t \in DOMAIN wins' : wins'[t] <= 1)
     => \A c \in creds : \A d \in creds' : c.id = d.id => d.counter >= c.counter]_vars

\* C14: in every reachable state a user has at most one stored credential per
\* relying-party id.
C14_OnePerUserRp ==
  \A c \in creds : \A d \in creds :
    (c.user_id = d.user_id /\ c.rp_id = d.rp_id) => c = d

\* a registration-complete for a credential id not yet stored, by a user who
\* already has a passkey, reached the INSERT and was refused by the schema
C14_Witness ==
  /\ last.op = "regComplete"
  /\ last.save = "conflict"
  /\ RowsWithId(last.cred) = {}
  /\ \E c \in creds : c.user_id = last.user.id /\ c.rp_id = RP_ID

\* C15: usernames are unique case-insensitively: no two user rows share a
\* lowercase username, a name and its lowercase form resolve to the same row,
\* and a registration-begin that succeeded worked on that row.
C15_CaseInsensitiveUnique ==
  /\ \A u \in users : \A v \in users : Lower(u.username) = Lower(v.username) => u = v
  /\ \A n \in ValidNames : getUserByUsername(n) = getUserByUsername(Lower(n))
  /\ (last.op = "regBegin" /\ last.resp.status = 200)
     => /\ last.user # NoRow
        /\ last.user = getUserByUsername(Lower(last.username))

\* registration-begin succeeded for "bob" on the row that an earlier
\* registration-begin for "Bob" was given a token for
C15_Witness ==
  /\ last.op = "regBegin" /\ last.resp.status = 200 /\ last.username = "bob"
  /\ \E t \in DOMAIN mintedBy : mintedBy[t].username = "Bob"
  /\ Cardinality({u \in users : Lower(u.username) = "bob"}) = 1

\* C16: a registration-begin for a valid username whose user row exists when it
\* answers (created by itself or by a concurrent call) returns ceremony
\* parameters and a challenge token for that row.
C16_LoserRefetches ==
  (/\ last.op = "regBegin"
   /\ validateUsername(last.username)
   /\ getUserByUsername(last.username) # NoRow)
  => /\ last.resp.status = 200
     /\ last.resp.challengeToken # NoToken
     /\ last.user = getUserByUsername(last.username)

\* a status call that was answered from the bearer token alone
TokenStatus == last.op = "status" /\ last.cookie = NoRow /\ last.bearer # NoSession

\* C17: with calls made one after another, validating a token that createSessionToken
\* returned and no logout has destroyed yields the session of the user id it was
\* created for, and validating a token after its logout yields no session.
C17_RoundTrip ==
  TokenStatus =>
    /\ (last.bearer \in DOMAIN issued /\ last.bearer \notin loggedOut)
       => /\ last.resp.authenticated
          /\ last.resp.userId = issued[last.bearer]
          /\ last.sessionData.userId = issued[last.bearer]
    /\ last.bearer \in loggedOut => ~last.resp.authenticated

\* a token created by an authentication in this behaviour was validated
C17_Witness ==
  /\ TokenStatus
  /\ last.bearer \in DOMAIN issued /\ last.bearer # 1
  /\ last.resp.authenticated
  /\ last.resp.userId = issued[last.bearer]

\* C18: a status call for a token, started after a logout presenting that token
\* has returned, answers {authenticated: false}.
C18_LogoutIsFinal ==
  (TokenStatus /\ last.afterLogout) => ~last.resp.authenticated

C20_ExpiredAfterAWeek ==
  (last.op = "status" /\ last.stale) => ~last.resp.authenticated

\* the status call presented the bearer token of such a session and the GET had
\* Redis reachable
C20_Witness ==
  /\ last.op = "status" /\ last.stale /\ last.bearer # NoSession
  /\ last.getDone /\ redisUp /\ ~last.storeFailed
  /\ last.bearer \in DOMAIN sessions
  /\ ~last.resp.authenticated

\* C21: a status call answers authenticated from a bearer token only at times
\* strictly before the session's creation time plus the time to live, however
\* many validations came before.
C21_FixedExpiry ==
  (TokenStatus /\ last.resp.authenticated /\ last.at = now)
  => now < last.sessionData.loginTime + SessionTtlSeconds

\* a status call that was answered from the session cookie
CookieStatus == last.op = "status" /\ last.cookie # NoRow

\* C22: the expiresAt a status call reports is the session's creation time plus
\* its time to live, for a session resolved by bearer token and for one resolved
\* by cookie.
C22_ExpiresAtPredictable ==
  /\ (TokenStatus /\ last.resp.authenticated)
     => last.resp.expiresAt = last.sessionData.loginTime + SessionTtlSeconds
  /\ (CookieStatus /\ last.sid \in DOMAIN cookies)
     => last.resp.expiresAt = cookies[last.sid].loginTime + CookieTtlSeconds

\* C23: with calls made one after another, status answers with the cookie
\* session's fields whenever the cookie resolves, whatever token comes with it;
\* with the token session's fields when the cookie does not resolve and the
\* token validates; and with {authenticated: false} exactly when neither resolves.
C23_CookieFirst ==
  last.op = "status" =>
    IF Live(cookies, last.sid)
    THEN /\ last.resp.authenticated
         /\ last.resp.userId = cookies[last.sid].userId
         /\ last.resp.username = cookies[last.sid].username
    ELSE IF Live(sessions, last.bearer)
    THEN /\ last.resp.authenticated
         /\ last.resp.userId = sessions[last.bearer].userId
         /\ last.resp.username = sessions[last.bearer].username
    ELSE ~last.resp.authenticated

\* the call carried a live cookie and a live token of two different users
C23_Witness ==
  /\ last.op = "status"
  /\ Live(cookies, last.sid) /\ Live(sessions, last.bearer)
  /\ sessions[last.bearer].userId # cookies[last.sid].userId
  /\ last.resp.userId = cookies[last.sid].userId

\* an authentication-complete call past its credential lookups
PastLookup(r) ==
  r.op = "authComplete" /\ r.pc \in {"ac_get", "ac_del", "ac_verify", "ac_update", "ac_session"}

\* C24: an authentication-complete call goes past its lookups only with a stored
\* credential whose id is the credential.id or the re-encoded rawId it sent; a
\* call for which neither is stored is answered 'Credential not found', consumes
\* no challenge, updates no counter and creates no session.
C24_CredentialNotFound ==
  /\ \A p \in Procs :
       PastLookup(req[p])
       => /\ RowsWithId(req[p].stored.id) # {}
          /\ req[p].stored.id \in {req[p].cred, Reencode(req[p].rawId)}
  /\ (/\ last.op = "authComplete" /\ last.cred # ""
      /\ RowsWithId(last.cred) = {} /\ last.stored = NoCred)
     => /\ last.resp.status = 400 /\ last.resp.error = "Credential not found"
        /\ ~last.resp.verified /\ last.resp.sessionToken = 0
        /\ ~last.getDone /\ ~last.counterUpdated /\ ~last.sessionCreated

\* the call named cY while only cX is stored
C24_Witness ==
  /\ last.op = "authComplete" /\ last.cred = "cY"
  /\ RowsWithId("cY") = {} /\ RowsWithId("cX") # {}
  /\ last.resp.error = "Credential not found"

\* C25: an authentication-complete call is answered 'Invalid or expired
\* challenge' when its token does not resolve and when the challenge in its
\* client data is not the stored one; neither updates a counter or creates a
\* session.
C25_ChallengeRejections ==
  (/\ last.op = "authComplete"
   /\ \/ last.getDone /\ last.expectedChallenge = NoChallenge /\ ~last.consumed
      \/ last.mismatch)
  => /\ last.resp.status = 400 /\ last.resp.error = InvalidChallenge
     /\ ~last.counterUpdated /\ ~last.sessionCreated

\* C26: a registration-begin call whose username breaks the format rules is
\* answered 'Invalid username' with no challenge token, and no user row and no
\* challenge exists for such a username.
C26_InvalidUsernameNoEffect ==
  /\ (last.op = "regBegin" /\ last.username \notin ValidNames)
     => /\ last.resp.status = 400 /\ last.resp.error = "Invalid username"
        /\ last.resp.challengeToken = NoToken
  /\ \A u \in users : \E n \in ValidNames : u.username = Lower(n)
  /\ \A t \in DOMAIN mintedBy :
       mintedBy[t].kind = "registration" => mintedBy[t].username \in ValidNames

InitPending == \E t \in Pending : t.kind = "init"

\* C27: a new SessionManager has its status call on the way; isSessionInitialized()
\* is false exactly while initializeSession has not finished, and the
\* 'sessionInitialized' event has been emitted once when it has finished, whether
\* the status call succeeded or failed, and never before.
C27_InitializedOnce ==
  /\ sm.isInitialized <=> ~InitPending
  /\ sm.emitted["sessionInitialized"] = IF sm.isInitialized THEN 1 ELSE 0
  /\ sm.returned = "init" => sm.emits[Len(sm.emits)] = "sessionInitialized"

C27_Witness ==
  /\ sm.returned = "init" /\ sm.isInitialized
  /\ ~sm.session.authenticated
  /\ sm.emits = <<"sessionChange", "sessionInitialized">>

\* C28: when the expiration timeout fires, the step emits exactly one event,
\* 'sessionExpired', and leaves the session { authenticated: false }, the profile
\* null, and neither the timeout nor the reconciliation interval pending.
C28_PassiveExpiration ==
  sm.did = "timeout" =>
    /\ sm.emits = <<"sessionExpired">>
    /\ sm.session = Unauthenticated
    /\ sm.profile = NoProfile
    /\ sm.checkInterval = NoTimer /\ sm.expirationTimeout = NoTimer
    /\ sm.timers = {}

C28_Witness ==
  /\ sm.did = "timeout"
  /\ sm.emits = <<"sessionExpired">>
  /\ sm.isInitialized
  /\ now >= SessionLife

\* C29: when login() or register() has returned successfully, a 'login' event has
\* been emitted to the listeners.
C29_LoginEvent ==
  (sm.returned \in {"login", "register"} /\ sm.ok) => sm.emitted["login"] >= 1

\* the subscriptions of listener l whose unsubscribe function was never called
\* and that no destroy() ended
LiveSubs(l) == {k \in DOMAIN sm.subs : sm.subs[k].listener = l /\ ~sm.subs[k].cancelled}

Registered_(l) == {i \in DOMAIN sm.listeners : sm.listeners[i] = l}

\* C30: a listener is registered once for each of its subscriptions that was not
\* unsubscribed, so that calling an unsubscribe function, a second time or after
\* destroy() as well, takes away that subscription and nothing else; and events
\* are delivered only to listeners with such a subscription.
C30_UnsubscribeSafe ==
  /\ \A l \in Listeners : Cardinality(Registered_(l)) = Cardinality(LiveSubs(l))
  /\ \A l \in sm.delivered : LiveSubs(l) # {}

\* the same, for listeners that were subscribed once only
C30_SubscribedOnce ==
  \A l \in Listeners :
    Cardinality({k \in DOMAIN sm.subs : sm.subs[k].listener = l}) <= 1 =>
      /\ Cardinality(Registered_(l)) = Cardinality(LiveSubs(l))
      /\ l \in sm.delivered => LiveSubs(l) # {}

\* C31: a call that created a session created it for the owner of a stored
\* credential whose assertion it verified, or is the registration-complete whose
\* INSERT stored the credential of the user it names.
C31_SessionNeedsPossession ==
  last.sessionCreated =>
    \/ /\ last.op = "authComplete" /\ last.verifyOk
       /\ last.stored # NoCred /\ last.stored.user_id = last.cookie.id
    \/ last.op = "regComplete" /\ last.save = "ok"

\* the expiration timeouts that are pending
Timeouts == {t \in sm.timers : t.kind = "timeout"}

\* C32: whenever the mirrored session of a manager that was not destroyed is
\* authenticated with an expiresAt, the pending expiration timeout is set for
\* exactly that expiresAt.
C32_TimerAtExpiresAt ==
  (~sm.destroyed /\ sm.session.authenticated /\ sm.session.expiresAt # 0)
  => \E t \in Timeouts : t.at = sm.session.expiresAt /\ Timeouts = {t}

\* no session resolves for the page on the server: neither its cookie nor the
\* bearer token it sends
ServerGone == ~net.cookie /\ ~(net.storedToken /\ net.token)

C34_LogoutAlwaysClears ==
  sm.returned = "logout" =>
    /\ sm.session = Unauthenticated
    /\ sm.profile = NoProfile
    /\ sm.timers = {} /\ sm.checkInterval = NoTimer /\ sm.expirationTimeout = NoTimer
    /\ sm.emits = <<"logout">>

\* logout() returned although the server still resolves the page's session: the
\* logout call had failed
C34_Witness ==
  /\ sm.returned = "logout" /\ sm.emits = <<"logout">>
  /\ net.cookie /\ net.storedToken

Intervals == {t \in sm.timers : t.kind = "interval"}

\* C40: a timeout or an interval is pending only while the mirrored session is
\* authenticated; at most one timeout and at most one interval are pending, and
\* they are the ones whose handles the manager holds.
C40_TimersOnlyWhileAuthenticated ==
  /\ sm.timers # {} => sm.session.authenticated
  /\ Cardinality(Timeouts) <= 1 /\ Cardinality(Intervals) <= 1
  /\ \A t \in Timeouts : t.id = sm.expirationTimeout
  /\ \A t \in Intervals : t.id = sm.checkInterval

\* both are pending for an authenticated session set up a second time
C40_Witness ==
  /\ sm.session.authenticated /\ sm.isInitialized
  /\ Cardinality(Timeouts) = 1 /\ Cardinality(Intervals) = 1

\* C35: when logout() has returned, the page no longer sends a bearer token.
C35_TokenGoneAfterLogout ==
  sm.returned = "logout" => ~net.storedToken

\* C36: after logout() has returned with the server's sessions for the page
\* destroyed, and until a login or a registration succeeds, the mirrored session
\* is unauthenticated, whatever status answers were on their way.
C36_NoResurrection ==
  (sm.afterLogout /\ ServerGone) => ~sm.session.authenticated

\* C37: in every state the profile is null when the mirrored session is
\* unauthenticated.
C37_NoProfileWhenUnauthenticated ==
  ~sm.session.authenticated => sm.profile = NoProfile

\* C38: a well-formed username for which no credential is stored is answered
\* available by check-username, so that the page goes on to register it.
C38_RetryAllowed ==
  (/\ last.op = "checkUsername" /\ last.resp.status = 200
   /\ getCredentialsByUserId(getUserByUsername(last.resp.username).id) = {})
  => last.resp.available

\* the name of the user whose session the request resolved, by the cookie or by
\* the bearer token
ResolvedUser(r) ==
  IF r.cookie # NoRow THEN r.cookie.username
  ELSE IF r.sessionData # NoRow THEN r.sessionData.username
  ELSE NoName

\* C39: a credentials request of a logged-in user for its own name is answered
\* with the user's credentials, whether the cookie or the bearer token carried
\* the session.
C39_TransportIndependent ==
  (/\ last.op = "credentials" /\ ResolvedUser(last) # NoName
   /\ ResolvedUser(last) = last.username)
  => /\ last.resp.status = 200
     /\ last.resp.credentials = getCredentialsByUserId(getUserByUsername(last.username).id)
====
